---- MODULE Spec2Model ----
(***************************************************************************)
(* A model of crates/kube-observe/src/conditions.rs: the status-condition  *)
(* helpers of kube-observe.  One resource (the test module's Dummy custom  *)
(* resource, the only list-backed implementation of HasStatusConditions) *)
(* is read with condition(), upserted with condition_mut() and changed    *)
(* through the ConditionExt setters on the handle condition_mut returned. *)
(*                                                                         *)
(* Strings that are only compared for equality (status, reason, message)  *)
(* are TLA+ strings.  Type names are also ordered (sort_by_key), so they   *)
(* are sequences of byte values, ordered as Rust orders String.           *)
(* Option<T> is a sequence of length 0 (None) or 1 (Some).                *)
(***************************************************************************)
EXTENDS Integers, Sequences, FiniteSets

VARIABLES
    status,     \* Dummy.status : Option<DummyStatus>, DummyStatus = [conditions : Option<Vec<Condition>>]
    now,        \* the wall clock Utc::now() reads
    handle,     \* the live &mut Condition condition_mut returned: its index in the list, 0 when none
    ret,        \* Option<Condition>: the value the last condition() call returned
    op,         \* the last call made: its name and arguments
    before,     \* what status was when the last call was made
    panicked,   \* condition_mut panicked: its final unwrap(), or unimplemented!()
    kind,       \* the type of the resource: "Dummy", "Pod" or "Node"
    steps       \* number of calls made so far

vars == <<status, now, handle, ret, op, before, panicked, kind, steps>>

(***************************** bounds **************************************)
MaxInitLen == 2
MaxSteps == 3
MaxClock == 3

(***************************** values **************************************)
None == << >>
Some(x) == << x >>

\* type names, as the bytes of "Done", "Rea" and "Ready"
Str_Done == << 68, 111, 110, 101 >>
Str_Rea == << 82, 101, 97 >>
Str_Ready == << 82, 101, 97, 100, 121 >>
TypeNames == { Str_Done, Str_Rea, Str_Ready }

\* Ord for String: lexicographic on bytes, a proper prefix is smaller
StrLess(a, b) ==
    \E k \in 0..Len(a) :
        /\ k <= Len(b)
        /\ \A i \in 1..k : a[i] = b[i]
        /\ \/ k = Len(a) /\ k < Len(b)
           \/ k < Len(a) /\ k < Len(b) /\ a[k + 1] < b[k + 1]

\* arguments of type impl ToString: a String, a &str, or the test enum ReadyReasons
ReasonInputs ==
    { [form |-> "String", val |-> "Yoyo"],
      [form |-> "str", val |-> "Yoyo"],
      [form |-> "enum", val |-> "ReadyReasons::Yoyo"],
      [form |-> "str", val |-> "Other"],
      [form |-> "str", val |-> ""] }

MessageInputs ==
    { [form |-> "str", val |-> "down"],
      [form |-> "str", val |-> ""] }

\* Display for ReadyReasons
ReadyReasons_fmt(variant) ==
    CASE variant = "ReadyReasons::Yoyo" -> "Yoyo"

\* a wrong Display: the variant's path instead of the text fmt writes
ToString_Debug(input) == input.val

\* ToString::to_string of an argument
ToString(input) ==
    IF input.form = "enum" THEN ReadyReasons_fmt(input.val) ELSE input.val

\* metadata.generation of the resources handed to set_generation_from / is_current
Generations == { None, Some(3), Some(4) }

\* the condition lists a collaborator may have left in the resource
InitConditions ==
    { [type_ |-> Str_Ready, status |-> "True", reason |-> "Yoyo", message |-> "",
       observed_generation |-> Some(3), last_transition_time |-> 0],
      [type_ |-> Str_Ready, status |-> "False", reason |-> "", message |-> "down",
       observed_generation |-> None, last_transition_time |-> 0],
      [type_ |-> Str_Done, status |-> "Unknown", reason |-> "", message |-> "",
       observed_generation |-> None, last_transition_time |-> 0],
      [type_ |-> Str_Rea, status |-> "Pending", reason |-> "Other", message |-> "",
       observed_generation |-> Some(4), last_transition_time |-> 0] }

InitLists ==
    UNION { [1..n -> InitConditions] : n \in 0..MaxInitLen }

(************************* pure functions **********************************)
generate_unknown_condition_False(type_, clock) ==
    [type_ |-> type_, status |-> "False", reason |-> "", message |-> "",
     observed_generation |-> None, last_transition_time |-> clock]

\* the status written in lower case
generate_unknown_condition_lowercase(type_, clock) ==
    [type_ |-> type_, status |-> "unknown", reason |-> "", message |-> "",
     observed_generation |-> None, last_transition_time |-> clock]

\* stamped with the epoch instead of the clock
generate_unknown_condition_epoch(type_, clock) ==
    [type_ |-> type_, status |-> "Unknown", reason |-> "", message |-> "",
     observed_generation |-> None, last_transition_time |-> 0]

generate_unknown_condition(type_, clock) ==
    [last_transition_time |-> clock,
     message |-> "",
     observed_generation |-> None,
     reason |-> "",
     status |-> "Unknown",
     type_ |-> type_]

\* self.status.clone().unwrap_or_default().conditions.unwrap_or_default()
conditions_or_default(st) ==
    IF st = None THEN << >>
    ELSE IF st[1].conditions = None THEN << >>
    ELSE st[1].conditions[1]

\* .iter().find(|c| c.type_ == type_): index of the first match, 0 for no match
find(v, type_) ==
    IF \E i \in 1..Len(v) : v[i].type_ = type_
    THEN CHOOSE i \in 1..Len(v) :
            /\ v[i].type_ = type_
            /\ \A j \in 1..(i - 1) : v[j].type_ # type_
    ELSE 0

\* the default is built but never pushed
push_forgotten(v, c) == v

\* Vec::push
push(v, c) == Append(v, c)

\* where a stable sort puts x among the already sorted elements: after every
\* element whose key is not greater
insert_sorted(sorted, x) ==
    LET k == Cardinality({ i \in 1..Len(sorted) : ~StrLess(x.type_, sorted[i].type_) })
    IN  SubSeq(sorted, 1, k) \o << x >> \o SubSeq(sorted, k + 1, Len(sorted))

sort_by_key_none(v) == v

\* an unstable variant: equal keys end up in reverse order
RECURSIVE sort_by_key_unstable(_)
sort_by_key_unstable(v) ==
    IF v = << >> THEN << >>
    ELSE LET sorted == sort_by_key_unstable(SubSeq(v, 1, Len(v) - 1))
             x == v[Len(v)]
             k == Cardinality({ i \in 1..Len(sorted) : StrLess(sorted[i].type_, x.type_) })
         IN  SubSeq(sorted, 1, k) \o << x >> \o SubSeq(sorted, k + 1, Len(sorted))

\* slice::sort_by_key(|c| c.type_.clone()): a stable sort
RECURSIVE sort_by_key(_)
sort_by_key(v) ==
    IF v = << >> THEN << >>
    ELSE insert_sorted(sort_by_key(SubSeq(v, 1, Len(v) - 1)), v[Len(v)])

dedup_by_key_none(v) == v

\* keeps the last of each run instead of the first
RECURSIVE dedup_by_key_last(_)
dedup_by_key_last(v) ==
    IF Len(v) <= 1 THEN v
    ELSE LET d == dedup_by_key_last(SubSeq(v, 1, Len(v) - 1))
             x == v[Len(v)]
         IN  IF d[Len(d)].type_ = x.type_
             THEN SubSeq(d, 1, Len(d) - 1) \o << x >>
             ELSE Append(d, x)

\* Vec::dedup_by_key(|c| c.type_.clone()): of consecutive elements with the
\* same key all but the first are removed
RECURSIVE dedup_by_key(_)
dedup_by_key(v) ==
    IF Len(v) <= 1 THEN v
    ELSE LET d == dedup_by_key(SubSeq(v, 1, Len(v) - 1))
             x == v[Len(v)]
         IN  IF d[Len(d)].type_ = x.type_ THEN d ELSE Append(d, x)

update_condition_always(condition, modified, clock) ==
    [modified EXCEPT !.last_transition_time = clock]

update_condition_no_generation(condition, modified, clock) ==
    IF \/ modified.reason # condition.reason
       \/ modified.status # condition.status
       \/ modified.message # condition.message
    THEN [modified EXCEPT !.last_transition_time = clock]
    ELSE condition

update_condition_no_stamp(condition, modified, clock) ==
    modified

\* a change stamps the epoch instead of the clock
update_condition_epoch(condition, modified, clock) ==
    IF \/ modified.observed_generation # condition.observed_generation
       \/ modified.reason # condition.reason
       \/ modified.status # condition.status
       \/ modified.message # condition.message
    THEN [modified EXCEPT !.last_transition_time = 0]
    ELSE condition

\* a change also resets the message
update_condition_clears_message(condition, modified, clock) ==
    IF \/ modified.observed_generation # condition.observed_generation
       \/ modified.reason # condition.reason
       \/ modified.status # condition.status
       \/ modified.message # condition.message
    THEN [modified EXCEPT !.last_transition_time = clock, !.message = ""]
    ELSE condition

\* update_condition(condition, f).  `modified` is f applied to the clone of
\* `condition`; f is deterministic, so f(condition) on the original gives the
\* same fields and only last_transition_time is then overwritten.
update_condition(condition, modified, clock) ==
    IF \/ modified.observed_generation # condition.observed_generation
       \/ modified.reason # condition.reason
       \/ modified.status # condition.status
       \/ modified.message # condition.message
    THEN [modified EXCEPT !.last_transition_time = clock]
    ELSE condition

\* ConditionExt predicates
is_true(c) == c.status = "True"
is_false(c) == c.status = "False"
\* anything that is neither "True" nor "False" taken for unknown
is_unknown_else(c) == c.status # "True" /\ c.status # "False"
is_unknown(c) == c.status = "Unknown"
has_reason(c, reason) == c.reason = ToString(reason)
\* an absent generation never counted as current
is_current_some(c, resource) ==
    c.observed_generation # None /\ c.observed_generation = resource.generation
is_current(c, resource) == c.observed_generation = resource.generation

(***************************** state ***************************************)
NoText == [form |-> "str", val |-> ""]

\* a call: its name, its arguments and the clock value Utc::now() gives during it
Call(name, type_, text, generation) ==
    [name |-> name, type_ |-> type_, text |-> text, generation |-> generation,
     at |-> now]

Setters == { "set_true", "set_false", "set_unknown", "set_reason", "set_message",
             "set_generation_from" }

conditions == conditions_or_default(status)

Init ==
    /\ status \in { None, Some([conditions |-> None]) }
                    \cup { Some([conditions |-> Some(l)]) : l \in InitLists }
    /\ now = 1
    /\ handle = 0
    /\ ret = None
    /\ op = Call("new", << >>, NoText, None)
    /\ before = status
    /\ panicked = FALSE
    /\ kind = "Dummy"
    /\ steps = 0

Running == ~panicked /\ steps < MaxSteps

\* time passes between calls; successive clock reads do not decrease
Tick ==
    /\ ~panicked
    /\ now < MaxClock
    /\ now' = now + 1
    /\ UNCHANGED <<status, handle, ret, op, before, panicked, kind, steps>>

\* a variant of condition() that inserts the default it returns
condition_inserting(type_) ==
    /\ Running
    /\ LET v == conditions
           i == find(v, type_)
       IN  /\ ret' = Some(IF i # 0 THEN v[i] ELSE generate_unknown_condition(type_, now))
           /\ status' = IF i # 0 THEN status
                        ELSE Some([conditions |->
                                Some(push(v, generate_unknown_condition(type_, now)))])
    /\ handle' = 0
    /\ op' = Call("condition", type_, NoText, None)
    /\ before' = status
    /\ steps' = steps + 1
    /\ UNCHANGED <<now, panicked, kind>>

\* Dummy::condition(&self, type_)
condition(type_) ==
    /\ Running
    /\ LET v == conditions_or_default(status)
           i == find(v, type_)
       IN  ret' = Some(IF i # 0 THEN v[i] ELSE generate_unknown_condition(type_, now))
    /\ handle' = 0
    /\ op' = Call("condition", type_, NoText, None)
    /\ before' = status
    /\ steps' = steps + 1
    /\ UNCHANGED <<status, now, panicked, kind>>

\* Dummy::condition_mut(&mut self, type_)
condition_mut(type_) ==
    /\ Running
    /\ LET v0 == conditions_or_default(status)       \* get_or_insert_default, twice
           v1 == push(v0, generate_unknown_condition(type_, now))
           v2 == sort_by_key(v1)
           v3 == dedup_by_key(v2)
           i == find(v3, type_)
       IN  /\ status' = Some([conditions |-> Some(v3)])
           /\ handle' = i
           /\ panicked' = (i = 0)                     \* .unwrap()
    /\ ret' = None
    /\ op' = Call("condition_mut", type_, NoText, None)
    /\ before' = status
    /\ steps' = steps + 1
    /\ UNCHANGED <<now, kind>>

\* a setter called on the handle: the list with the handle's entry replaced
Store(c) ==
    Some([conditions |-> Some([conditions EXCEPT ![handle] = c])])

SetterCall(name, text, generation, modified) ==
    /\ Running
    /\ handle # 0
    /\ status' = Store(update_condition(conditions[handle], modified, now))
    /\ op' = Call(name, conditions[handle].type_, text, generation)
    /\ ret' = None
    /\ before' = status
    /\ steps' = steps + 1
    /\ UNCHANGED <<now, handle, panicked, kind>>

set_true ==
    SetterCall("set_true", NoText, None,
               [conditions[handle] EXCEPT !.status = "True"])

set_false ==
    SetterCall("set_false", NoText, None,
               [conditions[handle] EXCEPT !.status = "False"])

set_unknown ==
    SetterCall("set_unknown", NoText, None,
               [conditions[handle] EXCEPT !.status = "Unknown"])

set_reason(reason) ==
    SetterCall("set_reason", reason, None,
               [conditions[handle] EXCEPT !.reason = ToString(reason)])

set_message(message) ==
    SetterCall("set_message", message, None,
               [conditions[handle] EXCEPT !.message = ToString(message)])

set_generation_from(resource) ==
    SetterCall("set_generation_from", NoText, resource.generation,
               [conditions[handle] EXCEPT !.observed_generation = resource.generation])

Next ==
    \/ Tick
    \/ \E type_ \in TypeNames : condition(type_)
    \/ \E type_ \in TypeNames : condition_mut(type_)
    \/ set_true
    \/ set_false
    \/ set_unknown
    \/ \E reason \in ReasonInputs : set_reason(reason)
    \/ \E message \in MessageInputs : set_message(message)
    \/ \E g \in Generations : set_generation_from([generation |-> g])

Spec == Init /\ [][Next]_vars

(******************* Pod and Node: the existing types **********************)
\* the PodCondition / NodeCondition lists a Pod or a Node may carry; reason,
\* message and last_transition_time are Option fields there
ExistingConditions ==
    { [type_ |-> Str_Ready, status |-> "True", reason |-> None, message |-> None,
       last_transition_time |-> Some(0)],
      [type_ |-> Str_Ready, status |-> "False", reason |-> Some("Yoyo"),
       message |-> Some("down"), last_transition_time |-> None],
      [type_ |-> Str_Done, status |-> "Unknown", reason |-> Some(""), message |-> None,
       last_transition_time |-> Some(0)],
      [type_ |-> Str_Rea, status |-> "Pending", reason |-> None, message |-> Some("down"),
       last_transition_time |-> None] }

ExistingLists ==
    UNION { [1..n -> ExistingConditions] : n \in 0..MaxInitLen }

\* reason and message taken from each other's field
from_pod_condition_swapped(pc, clock) ==
    [last_transition_time |->
        IF pc.last_transition_time = None THEN clock ELSE pc.last_transition_time[1],
     message |-> IF pc.reason = None THEN "" ELSE pc.reason[1],
     observed_generation |-> None,
     reason |-> IF pc.message = None THEN "" ELSE pc.message[1],
     status |-> pc.status,
     type_ |-> pc.type_]

\* the closure Pod::condition maps over the PodCondition it found
from_pod_condition(pc, clock) ==
    [last_transition_time |->
        IF pc.last_transition_time = None THEN clock ELSE pc.last_transition_time[1],
     message |-> IF pc.message = None THEN "" ELSE pc.message[1],
     observed_generation |-> None,
     reason |-> IF pc.reason = None THEN "" ELSE pc.reason[1],
     status |-> pc.status,
     type_ |-> pc.type_]

\* the closure Node::condition maps over the NodeCondition it found
from_node_condition(nc, clock) ==
    [last_transition_time |->
        IF nc.last_transition_time = None THEN clock ELSE nc.last_transition_time[1],
     message |-> IF nc.message = None THEN "" ELSE nc.message[1],
     observed_generation |-> None,
     reason |-> IF nc.reason = None THEN "" ELSE nc.reason[1],
     status |-> nc.status,
     type_ |-> nc.type_]

InitExisting ==
    /\ status \in { None, Some([conditions |-> None]) }
                    \cup { Some([conditions |-> Some(l)]) : l \in ExistingLists }
    /\ now = 1
    /\ handle = 0
    /\ ret = None
    /\ op = Call("new", << >>, NoText, None)
    /\ before = status
    /\ panicked = FALSE
    /\ kind \in { "Pod", "Node" }
    /\ steps = 0

\* Pod::condition(&self, type_)
Pod_condition(type_) ==
    /\ kind = "Pod"
    /\ Running
    /\ LET v == conditions_or_default(status)
           i == find(v, type_)
       IN  ret' = Some(IF i # 0 THEN from_pod_condition(v[i], now)
                       ELSE generate_unknown_condition(type_, now))
    /\ handle' = 0
    /\ op' = Call("condition", type_, NoText, None)
    /\ before' = status
    /\ steps' = steps + 1
    /\ UNCHANGED <<status, now, panicked, kind>>

\* a condition_mut for Pod written like the list-backed one
Pod_condition_mut_inserting(type_) ==
    /\ kind = "Pod"
    /\ Running
    /\ LET v == conditions_or_default(status)
       IN  /\ status' = Some([conditions |-> Some(Append(v,
                    [type_ |-> type_, status |-> "Unknown", reason |-> None,
                     message |-> None, last_transition_time |-> Some(now)]))])
           /\ handle' = Len(v) + 1
    /\ panicked' = FALSE
    /\ ret' = None
    /\ op' = Call("condition_mut", type_, NoText, None)
    /\ before' = status
    /\ steps' = steps + 1
    /\ UNCHANGED <<now, kind>>

\* Pod::condition_mut(&mut self, _type_): unimplemented!()
Pod_condition_mut(type_) ==
    /\ kind = "Pod"
    /\ Running
    /\ panicked' = TRUE
    /\ handle' = 0
    /\ ret' = None
    /\ op' = Call("condition_mut", type_, NoText, None)
    /\ before' = status
    /\ steps' = steps + 1
    /\ UNCHANGED <<status, now, kind>>

\* Node::condition(&self, type_)
Node_condition(type_) ==
    /\ kind = "Node"
    /\ Running
    /\ LET v == conditions_or_default(status)
           i == find(v, type_)
       IN  ret' = Some(IF i # 0 THEN from_node_condition(v[i], now)
                       ELSE generate_unknown_condition(type_, now))
    /\ handle' = 0
    /\ op' = Call("condition", type_, NoText, None)
    /\ before' = status
    /\ steps' = steps + 1
    /\ UNCHANGED <<status, now, panicked, kind>>

\* Node::condition_mut(&mut self, _type_): unimplemented!()
Node_condition_mut(type_) ==
    /\ kind = "Node"
    /\ Running
    /\ panicked' = TRUE
    /\ handle' = 0
    /\ ret' = None
    /\ op' = Call("condition_mut", type_, NoText, None)
    /\ before' = status
    /\ steps' = steps + 1
    /\ UNCHANGED <<status, now, kind>>

NextExisting ==
    \/ Tick
    \/ \E type_ \in TypeNames : Pod_condition(type_)
    \/ \E type_ \in TypeNames : Pod_condition_mut(type_)
    \/ \E type_ \in TypeNames : Node_condition(type_)
    \/ \E type_ \in TypeNames : Node_condition_mut(type_)

SpecExisting == InitExisting /\ [][NextExisting]_vars

(***************************** properties **********************************)
Before == conditions_or_default(before)

Unique(v) == \A i, j \in 1..Len(v) : v[i].type_ = v[j].type_ => i = j

Sorted(v) == \A i, j \in 1..Len(v) : i < j => ~StrLess(v[j].type_, v[i].type_)

Count(v, type_) == Cardinality({ i \in 1..Len(v) : v[i].type_ = type_ })

Mutated == op.name \in { "condition_mut" } \cup Setters

\* C1: after every condition_mut call (and every setter call on its handle),
\* whatever list the resource started with, no two conditions of the list
\* have the same type name.
C1_Uniqueness == Mutated => Unique(conditions)

\* a condition_mut call on a list that held two conditions of one type name
C1_Witness ==
    /\ op.name = "condition_mut"
    /\ ~Unique(Before)
    /\ Len(conditions) >= 1

\* C2: after every condition_mut call and every setter call on its handle
\* the list is in ascending order of type name.
C2_Ordering == Mutated => Sorted(conditions)

\* a condition_mut call on a list a collaborator had left out of order
C2_Witness ==
    /\ op.name = "condition_mut"
    /\ ~Sorted(Before)
    /\ conditions # Before

\* C3: a condition_mut call that directly follows a condition_mut call with the
\* same type name changes nothing in the resource and returns a handle to the
\* same entry; and the first condition_mut call on a resource with an empty or
\* absent list leaves a list of length 1.
C3_IdempotentUpsert ==
    [][ /\ (/\ op.name = "condition_mut"
            /\ op'.name = "condition_mut"
            /\ op'.type_ = op.type_
            /\ steps' = steps + 1)
           => (status' = status /\ handle' = handle /\ ~panicked')
        /\ (/\ conditions = << >>
            /\ op'.name = "condition_mut"
            /\ steps' = steps + 1)
           => Len(conditions') = 1 ]_vars

\* two condition_mut calls in a row on a fresh resource, the second at a later
\* clock value: one entry, still stamped by the first call
C3_Witness ==
    /\ steps = 2
    /\ op.name = "condition_mut"
    /\ status = before
    /\ handle = 1
    /\ conditions = << generate_unknown_condition(op.type_, 1) >>
    /\ op.at > 1

\* the value the last setter call writes is the value its target field held
NoOpCall ==
    LET c == Before[handle]
    IN  CASE op.name = "set_true" -> c.status = "True"
          [] op.name = "set_false" -> c.status = "False"
          [] op.name = "set_unknown" -> c.status = "Unknown"
          [] op.name = "set_reason" ->
                c.reason = (IF op.text.form = "enum" THEN "Yoyo" ELSE op.text.val)
          [] op.name = "set_message" -> c.message = op.text.val
          [] op.name = "set_generation_from" -> c.observed_generation = op.generation

\* the condition a setter call that changes its field must leave
Written ==
    LET c == Before[handle]
    IN  CASE op.name = "set_true" -> [c EXCEPT !.status = "True"]
          [] op.name = "set_false" -> [c EXCEPT !.status = "False"]
          [] op.name = "set_unknown" -> [c EXCEPT !.status = "Unknown"]
          [] op.name = "set_reason" ->
                [c EXCEPT !.reason = IF op.text.form = "enum" THEN "Yoyo" ELSE op.text.val]
          [] op.name = "set_message" -> [c EXCEPT !.message = op.text.val]
          [] op.name = "set_generation_from" ->
                [c EXCEPT !.observed_generation = op.generation]

FourFieldsDiffer(c, d) ==
    \/ c.observed_generation # d.observed_generation
    \/ c.reason # d.reason
    \/ c.status # d.status
    \/ c.message # d.message

\* C4: a setter call that writes the value the condition already holds leaves
\* the condition, last_transition_time included, and the whole resource as
\* they were.
C4_NoOpSetterStability ==
    (op.name \in Setters /\ NoOpCall) =>
        /\ conditions[handle] = Before[handle]
        /\ status = before

\* set_reason("Yoyo") on a condition whose reason is "Yoyo", called after the
\* clock has moved past the condition's last_transition_time
C4_Witness ==
    /\ op.name = "set_reason"
    /\ NoOpCall
    /\ conditions[handle].reason = "Yoyo"
    /\ conditions[handle].last_transition_time < op.at

\* C5: a setter call that writes a value other than the one held leaves the
\* condition with the new value in that field and last_transition_time equal
\* to the clock value of the call; and in any setter call last_transition_time
\* changes only if one of observed_generation, reason, status, message does.
C5_ChangeDetection ==
    op.name \in Setters =>
        /\ ~NoOpCall =>
              conditions[handle] = [Written EXCEPT !.last_transition_time = op.at]
        /\ conditions[handle].last_transition_time # Before[handle].last_transition_time
              => FourFieldsDiffer(conditions[handle], Before[handle])

\* set_reason with a new reason on a condition stamped before the call's clock value
C5_Witness ==
    /\ op.name = "set_reason"
    /\ ~NoOpCall
    /\ Before[handle].last_transition_time < op.at
    /\ conditions[handle].last_transition_time = op.at

GenerationBump ==
    /\ op.name = "set_generation_from"
    /\ op.generation # Before[handle].observed_generation

\* C6 as stated: a set_generation_from call with a generation other than the
\* one observed, status, reason and message staying the same, leaves
\* last_transition_time as it was.
C6_GenerationBumpKeepsTime ==
    GenerationBump =>
        conditions[handle].last_transition_time = Before[handle].last_transition_time

\* C6 amended: a set_generation_from call with a generation other than the one
\* observed stores that generation and sets last_transition_time to the clock
\* value of the call, status, reason and message staying the same; a call with
\* the generation already observed changes nothing.
C6_GenerationBumpIsTransition ==
    op.name = "set_generation_from" =>
        IF op.generation # Before[handle].observed_generation
        THEN conditions[handle] =
                [Before[handle] EXCEPT !.observed_generation = op.generation,
                                       !.last_transition_time = op.at]
        ELSE conditions[handle] = Before[handle]

\* a generation bump on a condition stamped before the call's clock value
C6_Witness ==
    /\ GenerationBump
    /\ Before[handle].observed_generation = Some(3)
    /\ op.generation = Some(4)
    /\ Before[handle].last_transition_time < op.at
    /\ conditions[handle].last_transition_time = op.at

\* C7: condition(t) on a resource none of whose conditions has type name t (an
\* absent status and an absent list included) returns type name t, status
\* "Unknown", reason "", message "", no observed_generation and the clock value
\* of the call as last_transition_time.
C7_DefaultOnAbsence ==
    (op.name = "condition" /\ Count(Before, op.type_) = 0) =>
        ret = Some([type_ |-> op.type_, status |-> "Unknown", reason |-> "",
                    message |-> "", observed_generation |-> None,
                    last_transition_time |-> op.at])

\* a read of a type name missing from a non-empty list
C7_Witness ==
    /\ op.name = "condition"
    /\ Count(Before, op.type_) = 0
    /\ Len(Before) >= 1
    /\ ret # None

\* C8: a condition(t) call, t present or not, leaves the status of the
\* resource, hence its condition list, exactly as it was.
C8_ReadPathPure ==
    op.name = "condition" => status = before

\* a read of an absent type name from a resource without status: the default
\* is returned and the status is still absent
C8_Witness ==
    /\ op.name = "condition"
    /\ status = None
    /\ ret # None
    /\ ret[1].type_ = op.type_

\* C9: the lookup that ends condition_mut never fails, and the handle it
\* returns is the one entry of the list whose type name is the requested one.
C9_LookupNeverFails ==
    /\ ~panicked
    /\ op.name = "condition_mut" =>
          /\ handle \in 1..Len(conditions)
          /\ conditions[handle].type_ = op.type_
          /\ Count(conditions, op.type_) = 1

\* condition_mut(t) on a list that held t twice
C9_Witness ==
    /\ op.name = "condition_mut"
    /\ Count(Before, op.type_) = 2
    /\ handle >= 1

\* C10: condition(t) called right after a set_reason(r) call on the handle
\* condition_mut(t) returned gives a condition whose reason is the text of r,
\* and has_reason holds for every form of that text.
C10_ReadAfterWrite ==
    [][ (/\ op.name = "set_reason"
         /\ op'.name = "condition"
         /\ op'.type_ = op.type_
         /\ steps' = steps + 1)
        => LET text == IF op.text.form = "enum" THEN "Yoyo" ELSE op.text.val
           IN  /\ ret' # None
               /\ ret'[1].reason = text
               /\ \A e \in ReasonInputs :
                     (IF e.form = "enum" THEN "Yoyo" ELSE e.val) = text
                        => has_reason(ret'[1], e) ]_vars

\* condition_mut("Ready") on a fresh resource, set_reason to "Yoyo", then
\* condition("Ready")
C10_Witness ==
    /\ steps = 3
    /\ op.name = "condition"
    /\ op.type_ = Str_Ready
    /\ Len(Before) = 1
    /\ ret # None
    /\ ret[1] = [generate_unknown_condition(Str_Ready, ret[1].last_transition_time)
                    EXCEPT !.reason = "Yoyo"]

\* C11: is_current(resource) holds exactly when observed_generation equals the
\* generation of the resource, two absent generations being equal; and right
\* after set_generation_from(resource) the condition is current for that
\* resource, whatever its generation.
C11_GenerationCurrency ==
    /\ \A i \in 1..Len(conditions) : \A g \in Generations :
          is_current(conditions[i], [generation |-> g])
             <=> \/ conditions[i].observed_generation = << >> /\ g = << >>
                 \/ /\ conditions[i].observed_generation # << >>
                    /\ g # << >>
                    /\ conditions[i].observed_generation[1] = g[1]
    /\ op.name = "set_generation_from" =>
          is_current(conditions[handle], [generation |-> op.generation])

\* a condition observed at generation 3, not current for a resource at
\* generation 4, made current by set_generation_from
C11_Witness ==
    /\ op.name = "set_generation_from"
    /\ op.generation = Some(4)
    /\ Before[handle].observed_generation = Some(3)
    /\ ~is_current(Before[handle], [generation |-> Some(4)])
    /\ is_current(conditions[handle], [generation |-> Some(4)])

\* C12: across every call the last_transition_time of the condition of each
\* type name in the list does not decrease (the clock does not go back, and
\* the conditions a collaborator left are stamped before the first clock read).
C12_MonotonicTransitionTime ==
    op.name # "new" =>
        \A t \in TypeNames :
            find(Before, t) # 0 =>
                /\ find(conditions, t) # 0
                /\ conditions[find(conditions, t)].last_transition_time
                      >= Before[find(Before, t)].last_transition_time

\* a condition stamped by the program is stamped again, later, by a setter
C12_Witness ==
    /\ op.name \in Setters
    /\ Before[handle].last_transition_time >= 1
    /\ conditions[handle].last_transition_time > Before[handle].last_transition_time

Canonical == { "True", "False", "Unknown" }

AllCanonical(v) == \A i \in 1..Len(v) : v[i].status \in Canonical

\* C13: a call made on a list all of whose statuses are "True", "False" or
\* "Unknown" leaves a list all of whose statuses are among these three; so
\* from a canonical list every sequence of calls keeps the list canonical.
C13_OnlyCanonicalStatuses ==
    AllCanonical(Before) => AllCanonical(conditions)

\* condition_mut has inserted a condition into a non-empty canonical list
C13_Witness ==
    /\ op.name = "condition_mut"
    /\ Len(Before) >= 1
    /\ AllCanonical(Before)
    /\ Len(conditions) > Len(Before)

Holding(c) ==
    (IF is_true(c) THEN 1 ELSE 0) + (IF is_false(c) THEN 1 ELSE 0)
        + (IF is_unknown(c) THEN 1 ELSE 0)

\* C14: of is_true, is_false and is_unknown exactly one holds for a condition
\* whose status is "True", "False" or "Unknown", each for its own status, and
\* none holds for any other status.
C14_StatusPredicatesPartition ==
    \A i \in 1..Len(conditions) :
        LET c == conditions[i]
        IN  /\ Holding(c) = IF c.status \in Canonical THEN 1 ELSE 0
            /\ is_true(c) <=> c.status = "True"
            /\ is_false(c) <=> c.status = "False"
            /\ is_unknown(c) <=> c.status = "Unknown"

\* a list with a condition of status "Pending", for which no predicate holds,
\* next to one the mutator inserted, which is unknown
C14_Witness ==
    /\ op.name = "condition_mut"
    /\ is_unknown(conditions[handle])
    /\ \E i \in 1..Len(conditions) :
          conditions[i].status = "Pending" /\ Holding(conditions[i]) = 0

\* C15: condition_mut(t) on a list that holds t returns a handle to a condition
\* equal in every field to the first entry of type name t; and when the list
\* was sorted and without duplicates the resource is left as it was.
C15_UpsertKeepsExisting ==
    (op.name = "condition_mut" /\ find(Before, op.type_) # 0) =>
        /\ handle # 0
        /\ conditions[handle] = Before[find(Before, op.type_)]
        /\ (Sorted(Before) /\ Unique(Before)) => status = before

\* condition_mut(t) at a later clock value on a list that holds t twice, with
\* different data
C15_Witness ==
    /\ op.name = "condition_mut"
    /\ Len(Before) = 2
    /\ Before[1].type_ = op.type_
    /\ Before[2].type_ = op.type_
    /\ Before[1] # Before[2]
    /\ op.at > 1
    /\ conditions = << Before[1] >>

\* C16: condition_mut(t) on a list without duplicates that does not hold t
\* makes the list one entry longer, and the entry of t is the Unknown default
\* stamped with the clock value of the call.
C16_InsertOnAbsence ==
    (op.name = "condition_mut" /\ Unique(Before) /\ Count(Before, op.type_) = 0) =>
        /\ Len(conditions) = Len(Before) + 1
        /\ handle # 0
        /\ conditions[handle] =
              [type_ |-> op.type_, status |-> "Unknown", reason |-> "",
               message |-> "", observed_generation |-> None,
               last_transition_time |-> op.at]

\* an insertion, after the clock has moved, into a list of two other conditions
C16_Witness ==
    /\ op.name = "condition_mut"
    /\ Unique(Before)
    /\ Len(Before) = 2
    /\ Count(Before, op.type_) = 0
    /\ Len(conditions) = 3
    /\ op.at > 1

TypeNamesOf(v) == { v[i].type_ : i \in 1..Len(v) }

\* C17: condition_mut(t) keeps every other type name u of the list, with the
\* condition that condition(u) finds unchanged in every field, and the type
\* names after the call are those before the call and t.
C17_MutatorKeepsOthers ==
    op.name = "condition_mut" =>
        /\ TypeNamesOf(conditions) = TypeNamesOf(Before) \cup { op.type_ }
        /\ \A u \in TypeNamesOf(Before) \ { op.type_ } :
              /\ find(conditions, u) # 0
              /\ conditions[find(conditions, u)] = Before[find(Before, u)]

\* condition_mut(t) on a list that holds another type name twice, with
\* different data
C17_Witness ==
    /\ op.name = "condition_mut"
    /\ Len(Before) = 2
    /\ Before[1].type_ = Before[2].type_
    /\ Before[1] # Before[2]
    /\ Before[1].type_ # op.type_
    /\ Len(conditions) = 2

\* the field a setter is for
TargetField ==
    CASE op.name \in { "set_true", "set_false", "set_unknown" } -> "status"
      [] op.name = "set_reason" -> "reason"
      [] op.name = "set_message" -> "message"
      [] op.name = "set_generation_from" -> "observed_generation"

\* C18: a setter call leaves the length and order of the list and every other
\* condition as they were, and in its own condition changes at most its target
\* field and last_transition_time.
C18_SetterFrame ==
    op.name \in Setters =>
        /\ Len(conditions) = Len(Before)
        /\ \A i \in 1..Len(conditions) : i # handle => conditions[i] = Before[i]
        /\ conditions[handle].type_ = Before[handle].type_
        /\ \A f \in { "status", "reason", "message", "observed_generation" } :
              f # TargetField => conditions[handle][f] = Before[handle][f]

\* set_true changes the status of a condition with a message, in a list of two
C18_Witness ==
    /\ op.name = "set_true"
    /\ Len(conditions) = 2
    /\ Before[handle].status = "False"
    /\ Before[handle].message = "down"
    /\ conditions[handle].status = "True"

\* C19 (under SpecExisting): every condition_mut call on a Pod or a Node
\* panics, returns no handle and leaves the status of the resource as it was,
\* and nothing else panics: every condition call returns a condition.
C19_ExistingMutatorAborts ==
    /\ op.name = "condition_mut" => (panicked /\ handle = 0 /\ status = before)
    /\ op.name = "condition" => (~panicked /\ ret # None /\ status = before)
    /\ panicked => op.name = "condition_mut"

\* a Pod whose list holds t: condition(t) has returned, then condition_mut(t)
\* panics
C19_Witness ==
    /\ kind = "Pod"
    /\ steps >= 2
    /\ op.name = "condition_mut"
    /\ panicked
    /\ Count(conditions, op.type_) >= 1

\* C20 (under SpecExisting): condition(t) on a Pod or a Node returns a
\* condition of type name t without observed_generation; when t is in the
\* list, with the status of the first entry of t and its reason and message,
\* "" for a missing one; so it is current only for a resource without
\* generation.
C20_ExistingConditionHasNoGeneration ==
    op.name = "condition" =>
        LET i == find(Before, op.type_)
            r == ret[1]
        IN  /\ r.observed_generation = << >>
            /\ r.type_ = op.type_
            /\ i # 0 =>
                  /\ r.status = Before[i].status
                  /\ r.type_ = Before[i].type_
                  /\ r.reason = IF Before[i].reason = << >> THEN ""
                                ELSE Before[i].reason[1]
                  /\ r.message = IF Before[i].message = << >> THEN ""
                                 ELSE Before[i].message[1]
            /\ \A g \in Generations :
                  is_current(r, [generation |-> g]) <=> g = << >>

\* a Pod condition with a message and no reason, read back with reason ""
C20_Witness ==
    /\ kind = "Pod"
    /\ op.name = "condition"
    /\ find(Before, op.type_) # 0
    /\ Before[find(Before, op.type_)].reason = None
    /\ Before[find(Before, op.type_)].message = Some("down")
    /\ ret[1].reason = ""
    /\ ret[1].message = "down"
    /\ ~is_current(ret[1], [generation |-> Some(3)])
====
